---- MODULE Spec2Model ----
(***************************************************************************)
(* Verification model of finance-mcp's resilient data-resolution core:     *)
(*   - ConnectionRegistry        (src/server/core/connection_registry.py)  *)
(*   - MarketDataService / FundamentalsAnalysisService fallback loops      *)
(*   - MarketDataCache           (src/server/utils/market_data_cache.py)   *)
(*   - IncrementalSyncEngine, MacroDataSyncScheduler, MacroDataService     *)
(* Each subsystem has its own specification (SpecRegistry, SpecFetch,      *)
(* SpecCache, SpecSync for the engine, SpecService for the service's entry *)
(* points); the variables of the other subsystems stay at their initial    *)
(* values.                                                                 *)
(***************************************************************************)
EXTENDS Integers, Sequences, FiniteSets, TLC

VARIABLES
    \* ---- ConnectionRegistry ----
    rConfig,     \* provider -> BOOLEAN: the provider's setting (token/host) is configured
    rConns,      \* provider -> handle id held in self._connections (0 = absent)
    rProvOf,     \* handle id -> provider it was constructed for ("" = not constructed)
    rConnected,  \* handle id -> BOOLEAN: conn._connected
    rNext,       \* next handle id to construct
    rPc,         \* thread -> position inside get_<provider>()
    rArg,        \* thread -> provider of the call in progress / last call
    rLocal,      \* thread -> local variable conn (handle id, 0 = unset)
    rFirst,      \* thread -> the call found the provider absent at line 94
    rRet,        \* thread -> outcome of the last finished call
    rHealth      \* thread -> what lines 101-104 did in the call: the health found, the reconnects

rvars == <<rConfig, rConns, rProvOf, rConnected, rNext, rPc, rArg, rLocal, rFirst, rRet,
          rHealth>>

VARIABLES
    \* ---- fallback loop of MarketDataService / FundamentalsAnalysisService ----
    fServices,   \* keys of self.services (the providers whose service object initialised)
    fKind,       \* "market" (get_stock_daily_data) or "fundamentals" (get_fundamental_data)
    fClass,      \* market class of the symbol: "china", "hk", "us", "unknown"
    fPc,         \* "idle", "loop", "returned", "raised"
    fIdx,        \* position of the for loop in data_sources (1-based)
    fAttempted,  \* providers whose fetch was attempted, in order
    fOutcomes,   \* outcome of each attempt: "data", "empty", "raise"
    fLastError,  \* last_error: the provider whose exception was caught last, or "None"
    fResult      \* source of the returned payload ("" = no payload)

fvars == <<fServices, fKind, fClass, fPc, fIdx, fAttempted, fOutcomes, fLastError, fResult>>

VARIABLES
    \* ---- MarketDataCache ----
    cNow,        \* datetime.now(), in ticks
    cRedisUp,    \* self.redis_client is not None (decided in __init__)
    cMem,        \* key -> entry of self._memory_cache
    cRedis,      \* key -> entry held by Redis
    cFile,       \* key -> pickle file of the key in cache_dir
    cLast,       \* key -> the last get/set call on the key
    cPrev        \* key -> the call on the key before that

cvars == <<cNow, cRedisUp, cMem, cRedis, cFile, cLast, cPrev>>

VARIABLES
    \* ---- IncrementalSyncEngine / MacroDataSyncScheduler / MacroDataService ----
    sStorage,         \* StorageManager.storage_type: "mysql" or "sqlite"
    sEnableCache,     \* MacroDataService.cache_enabled
    sEnableScheduler, \* MacroDataService.scheduler is not None
    sNow,             \* datetime.now() as a date [y, m, d]
    sPub,             \* indicator -> periods of the rows the provider holds
    sStore,           \* indicator -> periods of the rows in the indicator's table
    sCached,          \* indicators with keys macro_data::*:<indicator>:* in Redis
    sQuiet,           \* no provider data arrived and no time passed since sLast
    sLast,            \* the last run of sync_indicator: its result and what it did
    sPrev,            \* status and start of the run before sLast, when that
                      \* run was for the same indicator
    sCall             \* the last call of an entry point that runs a sync

svars == <<sStorage, sEnableCache, sEnableScheduler, sNow, sPub, sStore, sCached,
           sQuiet, sLast, sPrev, sCall>>

VARIABLES
    \* ---- MacroDataSyncScheduler: the loop and the history ----
    hRunning,    \* self.is_running
    hLoops,      \* live threads running _run_scheduler
    hJobs,       \* the jobs of setup_schedules are in the schedule
    hHistory,    \* len(self.sync_history)
    hLast        \* the last call of start, stop, a job or manual_sync

hvars == <<hRunning, hLoops, hJobs, hHistory, hLast>>

VARIABLES
    \* ---- ConnectionRegistry.health_check ----
    gPc,         \* "idle", or "iter" inside the for loop of line 324
    gSize,       \* len(self._connections) when the iterator was created
    gSeen,       \* providers with an entry in the report so far
    gRet         \* how the last call ended: "none", "report", "RuntimeError"

gvars == <<gPc, gSize, gSeen, gRet>>

VARIABLES
    \* the period arithmetic of IncrementalSyncEngine applied to one period
    pIndicator,   \* the indicator whose frequency is used
    pPeriod,      \* the period given to _get_next_period
    pNext,        \* what _get_next_period returned, None before the call
    pGreater      \* what _is_period_greater(pNext, pPeriod) returned

pvars == <<pIndicator, pPeriod, pNext, pGreater>>

VARIABLES
    \* one TushareConnection held by the registry
    kClient,      \* _client is set
    kConnected,   \* _connected
    kErrors,      \* _error_count
    kReconnects,  \* reconnect() calls of get_tushare since the last healthy check
    kLast         \* the last get_tushare on the handle

kvars == <<kClient, kConnected, kErrors, kReconnects, kLast>>

VARIABLES
    \* a get() of MarketDataCache in progress in a second thread
    tPc,          \* where the get is
    tKey,         \* its cache key
    tData         \* the entry it has read from Redis or from the file

tvars == <<tPc, tKey, tData>>

vars == <<rvars, fvars, cvars, svars, hvars, gvars, pvars, kvars, tvars>>

NotRegistry == <<fvars, cvars, svars, hvars, gvars, pvars, kvars, tvars>>
NotRegistryOps == <<fvars, cvars, svars, hvars, pvars, kvars, tvars>>
NotFetch == <<rvars, cvars, svars, hvars, gvars, pvars, kvars, tvars>>
NotCache == <<rvars, fvars, svars, hvars, gvars, pvars, kvars, tvars>>
NotSync == <<rvars, fvars, cvars, hvars, gvars, pvars, kvars, tvars>>
NotSched == <<rvars, fvars, cvars, svars, gvars, pvars, kvars, tvars>>
NotPeriod == <<rvars, fvars, cvars, svars, hvars, gvars, kvars, tvars>>
NotHandle == <<rvars, fvars, cvars, svars, hvars, gvars, pvars, tvars>>
NotRace == <<rvars, fvars, svars, hvars, gvars, pvars, kvars>>

\* ------------------------------------------------------------------------
\* Bounds
\* ------------------------------------------------------------------------
MaxHandles == 3
MaxTime == 4
TTL == 2
MaxVal == 2
MaxMonths == 2
MaxLoops == 2
MaxHistory == 1002

\* ========================================================================
\* ConnectionRegistry
\* ========================================================================
Threads == {1, 2}
Providers == {"tushare", "mysql"}
HandleIds == 1..MaxHandles

NoRet == [kind |-> "none", h |-> 0]
HandleRet(h) == [kind |-> "handle", h |-> h]
ConnectionError == [kind |-> "ConnectionError", h |-> 0]
KeyError == [kind |-> "KeyError", h |-> 0]

\* A call that has not reached the health check of line 101.
NoHealth == [checked |-> FALSE, healthy |-> FALSE, reconnects |-> 0, reconnected |-> FALSE]

\* The mutant of check_health: an unhealthy handle is returned as it is.
check_health_NoReconnect(healthy, reconnectOk) ==
    [checked |-> TRUE, healthy |-> healthy, reconnects |-> 0, reconnected |-> FALSE,
     ok |-> TRUE, connected |-> healthy]

\* get_tushare lines 101-104: conn.is_healthy(), and conn.reconnect() when
\* it is False; ok tells whether line 106 is reached, connected is
\* conn._connected afterwards.
check_health(healthy, reconnectOk) ==
    IF healthy
    THEN [checked |-> TRUE, healthy |-> TRUE, reconnects |-> 0, reconnected |-> FALSE,
          ok |-> TRUE, connected |-> TRUE]
    ELSE [checked |-> TRUE, healthy |-> FALSE, reconnects |-> 1,
          reconnected |-> reconnectOk, ok |-> reconnectOk, connected |-> reconnectOk]

\* ConnectionRegistry.__init__: an empty dict of connections.
InitRegistry ==
    /\ rConfig \in [Providers -> BOOLEAN]
    /\ rConns = [p \in Providers |-> 0]
    /\ rProvOf = [h \in HandleIds |-> ""]
    /\ rConnected = [h \in HandleIds |-> FALSE]
    /\ rNext = 1
    /\ rPc = [t \in Threads |-> "idle"]
    /\ rArg = [t \in Threads |-> "tushare"]
    /\ rLocal = [t \in Threads |-> 0]
    /\ rFirst = [t \in Threads |-> FALSE]
    /\ rRet = [t \in Threads |-> NoRet]
    /\ rHealth = [t \in Threads |-> NoHealth]

\* get_tushare line 94: `if "tushare" not in self._connections`.
GetCall(t, p) ==
    /\ UNCHANGED NotRegistry
    /\ rPc[t] = "idle"
    /\ rArg' = [rArg EXCEPT ![t] = p]
    /\ rFirst' = [rFirst EXCEPT ![t] = (rConns[p] = 0)]
    /\ rRet' = [rRet EXCEPT ![t] = NoRet]
    /\ rHealth' = [rHealth EXCEPT ![t] = NoHealth]
    /\ rLocal' = [rLocal EXCEPT ![t] = 0]
    /\ rPc' = [rPc EXCEPT ![t] = IF rConns[p] = 0 THEN "init" ELSE "pick"]
    /\ UNCHANGED <<rConfig, rConns, rProvOf, rConnected, rNext>>

\* _init_tushare lines 61-71: the second membership test, the configuration
\* test and the construction of the connection object.  No lock is taken.
InitEnter(t) ==
    /\ UNCHANGED NotRegistry
    /\ rPc[t] = "init"
    /\ LET p == rArg[t] IN
       IF rConns[p] # 0
       THEN /\ rPc' = [rPc EXCEPT ![t] = "pick"]
            /\ UNCHANGED <<rProvOf, rNext, rLocal, rRet>>
       ELSE IF ~rConfig[p]
       THEN /\ rPc' = [rPc EXCEPT ![t] = "idle"]
            /\ rRet' = [rRet EXCEPT ![t] = ConnectionError]
            /\ UNCHANGED <<rProvOf, rNext, rLocal>>
       ELSE /\ rNext <= MaxHandles
            /\ rProvOf' = [rProvOf EXCEPT ![rNext] = p]
            /\ rLocal' = [rLocal EXCEPT ![t] = rNext]
            /\ rNext' = rNext + 1
            /\ rPc' = [rPc EXCEPT ![t] = "connect"]
            /\ UNCHANGED rRet
    /\ UNCHANGED <<rConfig, rConns, rConnected, rArg, rFirst, rHealth>>

\* _init_tushare lines 73-78: conn.connect() (a network round trip), then
\* the store into self._connections on success.
InitConnect(t, ok) ==
    /\ UNCHANGED NotRegistry
    /\ rPc[t] = "connect"
    /\ LET p == rArg[t]
           h == rLocal[t] IN
       IF ok
       THEN /\ rConnected' = [rConnected EXCEPT ![h] = TRUE]
            /\ rConns' = [rConns EXCEPT ![p] = h]
            /\ rPc' = [rPc EXCEPT ![t] = "pick"]
            /\ UNCHANGED rRet
       ELSE /\ rPc' = [rPc EXCEPT ![t] = "idle"]
            /\ rRet' = [rRet EXCEPT ![t] = ConnectionError]
            /\ UNCHANGED <<rConnected, rConns>>
    /\ UNCHANGED <<rConfig, rProvOf, rNext, rArg, rLocal, rFirst, rHealth>>

\* get_tushare line 98: conn = self._connections["tushare"].
Pick(t) ==
    /\ UNCHANGED NotRegistry
    /\ rPc[t] = "pick"
    /\ IF rConns[rArg[t]] = 0
       THEN /\ rPc' = [rPc EXCEPT ![t] = "idle"]
            /\ rRet' = [rRet EXCEPT ![t] = KeyError]
            /\ UNCHANGED rLocal
       ELSE /\ rLocal' = [rLocal EXCEPT ![t] = rConns[rArg[t]]]
            /\ rPc' = [rPc EXCEPT ![t] = "health"]
            /\ UNCHANGED rRet
    /\ UNCHANGED <<rConfig, rConns, rProvOf, rConnected, rNext, rArg, rFirst, rHealth>>

\* get_tushare lines 101-106: the health check, one reconnect() when it
\* fails (disconnect then connect, base.py 60-69), and the return.
HealthAndReturn(t, healthy, reconnectOk) ==
    /\ UNCHANGED NotRegistry
    /\ rPc[t] = "health"
    /\ LET h == rLocal[t]
           c == check_health(healthy, reconnectOk) IN
       /\ healthy => rConnected[h]
       /\ rHealth' = [rHealth EXCEPT ![t] =
                         [checked |-> c.checked, healthy |-> c.healthy,
                          reconnects |-> c.reconnects, reconnected |-> c.reconnected]]
       /\ rRet' = [rRet EXCEPT ![t] = IF c.ok THEN HandleRet(h) ELSE ConnectionError]
       /\ rConnected' = [rConnected EXCEPT ![h] = c.connected]
    /\ rPc' = [rPc EXCEPT ![t] = "idle"]
    /\ UNCHANGED <<rConfig, rConns, rProvOf, rNext, rArg, rLocal, rFirst>>

NextRegistry ==
    \/ \E t \in Threads, p \in Providers : GetCall(t, p)
    \/ \E t \in Threads : InitEnter(t)
    \/ \E t \in Threads, ok \in BOOLEAN : InitConnect(t, ok)
    \/ \E t \in Threads : Pick(t)
    \/ \E t \in Threads, healthy \in BOOLEAN, reconnectOk \in BOOLEAN :
          HealthAndReturn(t, healthy, reconnectOk)

\* The registry before any call, every provider configured.
RegistryIdle ==
    /\ InitRegistry
    /\ rConfig = [p \in Providers |-> TRUE]

\* ------------------------------------------------------------------------
\* ConnectionRegistry.health_check and close_all, run beside get_<provider>
\* ------------------------------------------------------------------------
\* The keys of self._connections.
HeldProviders == {p \in Providers : rConns[p] # 0}

\* health_check has not been called.
HealthCheckIdle ==
    /\ gPc = "idle"
    /\ gSize = 0
    /\ gSeen = {}
    /\ gRet = "none"

\* health_check lines 322-324: the iterator over self._connections.items()
\* is created; it remembers the size of the dict.
HealthCheckCall ==
    /\ UNCHANGED NotRegistryOps
    /\ gPc = "idle"
    /\ gPc' = "iter"
    /\ gSize' = Cardinality(HeldProviders)
    /\ gSeen' = {}
    /\ gRet' = "none"
    /\ UNCHANGED rvars

\* One step of the for statement of line 324.  The dict iterator raises
\* RuntimeError("dictionary changed size during iteration") when the dict
\* no longer has the size it had at the start; the for statement is outside
\* the try of line 325.  Otherwise the next connection is evaluated (lines
\* 326-330; is_healthy catches its own errors and answers False) or, with
\* none left, the report is returned.
HealthCheckNext ==
    /\ UNCHANGED NotRegistryOps
    /\ gPc = "iter"
    /\ IF Cardinality(HeldProviders) # gSize
       THEN /\ gRet' = "RuntimeError"
            /\ gPc' = "idle"
            /\ UNCHANGED gSeen
       ELSE IF HeldProviders \ gSeen = {}
       THEN /\ gRet' = "report"
            /\ gPc' = "idle"
            /\ UNCHANGED gSeen
       ELSE /\ \E p \in HeldProviders \ gSeen : gSeen' = gSeen \cup {p}
            /\ UNCHANGED <<gPc, gRet>>
    /\ UNCHANGED gSize
    /\ UNCHANGED rvars

\* close_all: every held connection is disconnected and the dict cleared.
CloseAll ==
    /\ UNCHANGED NotRegistryOps
    /\ HeldProviders # {}
    /\ rConnected' = [h \in HandleIds |->
                         IF \E p \in HeldProviders : rConns[p] = h THEN FALSE
                         ELSE rConnected[h]]
    /\ rConns' = [p \in Providers |-> 0]
    /\ UNCHANGED <<rConfig, rProvOf, rNext, rPc, rArg, rLocal, rFirst, rRet, rHealth>>
    /\ UNCHANGED gvars

\* One thread calls get_<provider>, another health_check, a third close_all.
NextHealth ==
    \/ \E p \in Providers : GetCall(1, p)
    \/ InitEnter(1)
    \/ \E ok \in BOOLEAN : InitConnect(1, ok)
    \/ Pick(1)
    \/ \E healthy \in BOOLEAN, reconnectOk \in BOOLEAN :
          HealthAndReturn(1, healthy, reconnectOk)
    \/ HealthCheckCall
    \/ HealthCheckNext
    \/ CloseAll

\* ========================================================================
\* Fallback loops
\* ========================================================================
AllSources == {"tushare", "akshare", "tdx", "yfinance"}
Classes == {"china", "hk", "us", "unknown"}
Kinds == {"market", "fundamentals"}

\* DataSourceStrategy.get_market_data_sources.
get_market_data_sources(class) ==
    IF class = "china" THEN <<"tushare", "tdx", "akshare">>
    ELSE IF class = "hk" THEN <<"akshare", "tushare", "yfinance">>
    ELSE IF class = "us" THEN <<"yfinance", "akshare">>
    ELSE <<"yfinance", "akshare", "tushare", "tdx">>

\* StockSymbolProcessor._get_data_source_strategy(...)["fundamentals"].
get_fundamental_sources(class) ==
    IF class = "china" THEN <<"tushare", "akshare">>
    ELSE IF class = "hk" THEN <<"tushare", "akshare", "yfinance">>
    ELSE <<"yfinance", "akshare">>

Resolve(kind, class) ==
    IF kind = "market" THEN get_market_data_sources(class)
    ELSE get_fundamental_sources(class)

\* The mutant of ServiceAvailable: the membership test is dropped.
ServiceAvailable_NoCheck(source) == TRUE

\* market_service.py line 110 `if source not in self.services: continue`;
\* fundamentals_service.py lines 161-168 `... and source in self.services`.
ServiceAvailable(source) == source \in fServices

\* _get_data_from_source: what one attempt yields, given what the provider
\* would answer.  A missing service object, akshare for an unclassified
\* symbol and tdx for a non-A-share symbol return None without a provider call.
\* The _get_*_fundamentals helpers catch every exception and return None.
AttemptOutcome(kind, source, class, answer) ==
    IF source \notin fServices THEN "empty"
    ELSE IF kind = "market"
    THEN IF source = "akshare" /\ class = "unknown" THEN "empty"
         ELSE IF source = "tdx" /\ class # "china" THEN "empty"
         ELSE answer
    ELSE IF source = "tushare" /\ class \notin {"china", "hk"} THEN "empty"
         ELSE IF answer = "raise" THEN "empty" ELSE answer

\* The mutant of LastErrorAfter: the first error is kept instead of the last.
LastErrorAfter_KeepFirst(prev, source, outcome) ==
    IF outcome = "raise" /\ prev = "None" THEN source ELSE prev

\* market_service.py lines 121-122: `except Exception as e: last_error = e`.
LastErrorAfter(prev, source, outcome) ==
    IF outcome = "raise" THEN source ELSE prev

\* The provider errors that the DataNotFoundError of lines 127-129 carries:
\* its message holds last_error only.
RaisedErrors == IF fLastError = "None" THEN <<>> ELSE <<fLastError>>

InitFetch ==
    /\ fServices \in SUBSET AllSources
    /\ fKind = "market"
    /\ fClass = "china"
    /\ fPc = "idle"
    /\ fIdx = 1
    /\ fAttempted = <<>>
    /\ fOutcomes = <<>>
    /\ fLastError = "None"
    /\ fResult = ""

FetchIdle ==
    /\ InitFetch
    /\ fServices = AllSources

\* Entry of get_stock_daily_data (lines 97-108) / get_fundamental_data
\* (lines 147-156): resolve the provider list and start the loop.
FetchCall(kind, class) ==
    /\ UNCHANGED NotFetch
    /\ fPc # "loop"
    /\ fKind' = kind
    /\ fClass' = class
    /\ fPc' = "loop"
    /\ fIdx' = 1
    /\ fAttempted' = <<>>
    /\ fOutcomes' = <<>>
    /\ fLastError' = "None"
    /\ fResult' = ""
    /\ UNCHANGED fServices

\* One iteration of the for loop: skip a provider without service object,
\* else attempt it; return on a non-empty result, remember the exception of
\* a raising provider, and go on.
FetchStep(answer) ==
    /\ UNCHANGED NotFetch
    /\ fPc = "loop"
    /\ fIdx <= Len(Resolve(fKind, fClass))
    /\ LET source == Resolve(fKind, fClass)[fIdx] IN
       IF ~ServiceAvailable(source)
       THEN /\ fIdx' = fIdx + 1
            /\ UNCHANGED <<fPc, fAttempted, fOutcomes, fLastError, fResult>>
       ELSE LET outcome == AttemptOutcome(fKind, source, fClass, answer) IN
            /\ fAttempted' = Append(fAttempted, source)
            /\ fOutcomes' = Append(fOutcomes, outcome)
            /\ fLastError' = LastErrorAfter(fLastError, source, outcome)
            /\ IF outcome = "data"
               THEN /\ fPc' = "returned"
                    /\ fResult' = source
                    /\ UNCHANGED fIdx
               ELSE /\ fIdx' = fIdx + 1
                    /\ UNCHANGED <<fPc, fResult>>
    /\ UNCHANGED <<fServices, fKind, fClass>>

\* After the loop: get_stock_daily_data raises DataNotFoundError with the
\* last error in its message (lines 126-129); get_fundamental_data returns
\* the default record of _get_fallback_fundamentals (lines 179-181).
FetchExhaust ==
    /\ UNCHANGED NotFetch
    /\ fPc = "loop"
    /\ fIdx > Len(Resolve(fKind, fClass))
    /\ IF fKind = "market"
       THEN /\ fPc' = "raised"
            /\ UNCHANGED fResult
       ELSE /\ fPc' = "returned"
            /\ fResult' = "fallback"
    /\ UNCHANGED <<fServices, fKind, fClass, fIdx, fAttempted, fOutcomes, fLastError>>

NextFetch ==
    \/ \E kind \in Kinds, class \in Classes : FetchCall(kind, class)
    \/ \E answer \in {"data", "empty", "raise"} : FetchStep(answer)
    \/ FetchExhaust

\* ========================================================================
\* MarketDataCache
\* ========================================================================
Markets == {"china"}
DataTypes == {"spot"}

\* _get_cache_key: f"market_data:{market}:{data_type}".
get_cache_key(market, data_type) == <<"market_data", market, data_type>>

Keys == {get_cache_key(m, d) : m \in Markets, d \in DataTypes}

\* DataFrames: 0 is the empty frame, 1..MaxVal are non-empty frames.
Frames == 0..MaxVal

\* An entry of a tier.  origin is the time of the set() call that wrote the
\* payload first (not a field of the program; it follows the payload when a
\* get copies it between tiers).  exp is expires_at (memory) or the instant
\* the setex ttl runs out (Redis); mtime is the file's st_mtime.
NoEntry == [has |-> FALSE, val |-> 0, origin |-> 0, exp |-> 0, mtime |-> 0]
Entry(v, origin, exp, mtime) ==
    [has |-> TRUE, val |-> v, origin |-> origin, exp |-> exp, mtime |-> mtime]

\* A call on a key: ok is what set returned; redis and file tell whether
\* the call's write to (for clear, delete from) that tier went through.
NoCall ==
    [op |-> "none", val |-> 0, at |-> 0, hit |-> FALSE, origin |-> 0, ok |-> FALSE,
     redis |-> FALSE, file |-> FALSE]

\* The mutant of MemoryValid: the entry is dropped one tick early.
MemoryValid_Early(e, now) == e.has /\ now + 1 < e.exp

\* _get_from_memory line 169: `datetime.now() < cache_item["expires_at"]`.
MemoryValid(e, now) == e.has /\ now < e.exp

\* Redis drops a key once the ttl given to setex has run out.
RedisValid(e, now) == e.has /\ now < e.exp

\* _get_from_file line 220: expired iff `now > mtime + ttl`.
FileValid(e, now) == e.has /\ ~(now > e.mtime + TTL)

\* _set_to_memory: expires_at = now + ttl.
set_to_memory(k, v, origin) ==
    [cMem EXCEPT ![k] = Entry(v, origin, cNow + TTL, 0)]

\* _set_to_redis: nothing without a client; setex(key, ttl, ...) unless the
\* write raises (caught and logged).
set_to_redis(k, v, origin, redisOk) ==
    IF cRedisUp /\ redisOk
    THEN [cRedis EXCEPT ![k] = Entry(v, origin, cNow + TTL, 0)]
    ELSE cRedis

\* The mutant of set_to_file: no file is written.
set_to_file_Skip(k, v, fileOk) == cFile

\* _set_to_file: pickle.dump to the key's file unless the write raises.
set_to_file(k, v, fileOk) ==
    IF fileOk THEN [cFile EXCEPT ![k] = Entry(v, cNow, 0, cNow)] ELSE cFile

InitCache ==
    /\ cNow = 0
    /\ cRedisUp \in BOOLEAN
    /\ cMem = [k \in Keys |-> NoEntry]
    /\ cRedis = [k \in Keys |-> NoEntry]
    /\ cFile = [k \in Keys |-> NoEntry]
    /\ cLast = [k \in Keys |-> NoCall]
    /\ cPrev = [k \in Keys |-> NoCall]

CacheIdle ==
    /\ InitCache
    /\ cRedisUp = TRUE

\* MarketDataCache.set: an empty frame is refused; otherwise memory, Redis
\* and file are written in that order.
CacheSet(k, v, redisOk, fileOk) ==
    /\ UNCHANGED NotCache
    /\ IF v = 0
       THEN UNCHANGED <<cMem, cRedis, cFile>>
       ELSE /\ cMem' = set_to_memory(k, v, cNow)
            /\ cRedis' = set_to_redis(k, v, cNow, redisOk)
            /\ cFile' = set_to_file(k, v, fileOk)
    /\ cPrev' = [cPrev EXCEPT ![k] = cLast[k]]
    /\ cLast' = [cLast EXCEPT ![k] =
          [op |-> "set", val |-> v, at |-> cNow, hit |-> FALSE, origin |-> cNow,
           ok |-> (v # 0), redis |-> (v # 0 /\ cRedisUp /\ redisOk),
           file |-> (v # 0 /\ fileOk)]]
    /\ UNCHANGED <<cNow, cRedisUp>>

\* MarketDataCache.get: memory, then Redis (back-fills memory), then file
\* (back-fills memory and Redis).  An expired memory entry and an expired
\* file are deleted by the probe.
CacheGet(k, redisOk) ==
    /\ UNCHANGED NotCache
    /\ LET memHit == MemoryValid(cMem[k], cNow)
           memAfterProbe == IF cMem[k].has /\ ~memHit
                            THEN [cMem EXCEPT ![k] = NoEntry] ELSE cMem
           redisHit == cRedisUp /\ redisOk /\ RedisValid(cRedis[k], cNow)
           fileHit == FileValid(cFile[k], cNow)
           fileAfterProbe == IF cFile[k].has /\ ~fileHit
                             THEN [cFile EXCEPT ![k] = NoEntry] ELSE cFile
           src == IF memHit THEN cMem[k]
                  ELSE IF redisHit THEN cRedis[k]
                  ELSE IF fileHit THEN cFile[k]
                  ELSE NoEntry
       IN
       /\ cMem' = IF memHit THEN cMem
                  ELSE IF redisHit \/ fileHit THEN set_to_memory(k, src.val, src.origin)
                  ELSE memAfterProbe
       /\ cRedis' = IF ~memHit /\ ~redisHit /\ fileHit
                    THEN set_to_redis(k, src.val, src.origin, redisOk)
                    ELSE cRedis
       /\ cFile' = IF memHit \/ redisHit THEN cFile ELSE fileAfterProbe
       /\ cPrev' = [cPrev EXCEPT ![k] = cLast[k]]
       /\ cLast' = [cLast EXCEPT ![k] =
             [op |-> "get", val |-> src.val, at |-> cNow, hit |-> src.has,
              origin |-> src.origin, ok |-> src.has, redis |-> FALSE, file |-> FALSE]]
    /\ UNCHANGED <<cNow, cRedisUp>>

\* str.startswith(pattern) on a key, both split at the colons: the parts of
\* the pattern are compared with the parts of the key as they stand.
startswith(key, pattern) ==
    /\ Len(pattern) <= Len(key)
    /\ \A i \in 1..Len(pattern) : key[i] = pattern[i]

\* Redis KEYS pattern and Path.glob: a part "*" matches any part.
glob_match(key, pattern) ==
    /\ Len(pattern) = Len(key)
    /\ \A i \in 1..Len(pattern) : pattern[i] = "*" \/ key[i] = pattern[i]

\* clear line 139: pattern = f"market_data:{market}:*".
clear_pattern(market) == <<"market_data", market, "*">>

\* The memory keys clear(market) deletes: all of them without a market
\* (line 144), else those that start with the pattern (lines 252-256).
memory_cleared(key, market) ==
    market = "None" \/ startswith(key, clear_pattern(market))

\* The Redis keys clear(market) deletes: keys("market_data:*") (line 147) or
\* keys(pattern) (line 261), when there is a client and the calls go through.
redis_cleared(key, market, redisOk) ==
    /\ cRedisUp
    /\ redisOk
    /\ market = "None" \/ glob_match(key, clear_pattern(market))

\* The files clear(market) deletes: *.pkl (line 153), or the files whose
\* name starts with the pattern less its "*" (lines 268-270).
file_cleared(key, market) ==
    market = "None" \/ glob_match(key, clear_pattern(market))

\* MarketDataCache.clear(market): memory, Redis and files in that order.
CacheClear(market, redisOk) ==
    /\ UNCHANGED NotCache
    /\ cMem' = [k \in Keys |-> IF memory_cleared(k, market) THEN NoEntry ELSE cMem[k]]
    /\ cRedis' = [k \in Keys |->
                    IF redis_cleared(k, market, redisOk) THEN NoEntry ELSE cRedis[k]]
    /\ cFile' = [k \in Keys |-> IF file_cleared(k, market) THEN NoEntry ELSE cFile[k]]
    /\ cPrev' = [k \in Keys |-> cLast[k]]
    /\ cLast' = [k \in Keys |->
                   [NoCall EXCEPT !.op = "clear", !.at = cNow, !.ok = TRUE,
                                  !.redis = (cRedisUp /\ redisOk), !.file = TRUE]]
    /\ UNCHANGED <<cNow, cRedisUp>>

\* The clock advances by one tick.
CacheTick ==
    /\ UNCHANGED NotCache
    /\ cNow < MaxTime
    /\ cNow' = cNow + 1
    /\ UNCHANGED <<cRedisUp, cMem, cRedis, cFile, cLast, cPrev>>

NextCache ==
    \/ \E k \in Keys, v \in Frames, redisOk \in BOOLEAN, fileOk \in BOOLEAN :
          CacheSet(k, v, redisOk, fileOk)
    \/ \E k \in Keys, redisOk \in BOOLEAN : CacheGet(k, redisOk)
    \/ \E market \in Markets \cup {"None"}, redisOk \in BOOLEAN : CacheClear(market, redisOk)
    \/ CacheTick

\* ========================================================================
\* IncrementalSyncEngine
\* ========================================================================
Indicators == {"gdp", "cpi", "lpr"}

\* Periods are the digits of the period string read as a number: a month
\* "YYYYMM" is y*100+m, a quarter "YYYYQn" is y*10+n, a date "YYYYMMDD" is
\* y*10000+m*100+d.  None is the absent period.
None == 0

\* storage/base.py INDICATOR_FREQUENCY.
INDICATOR_FREQUENCY == [gdp |-> "quarterly", cpi |-> "monthly", lpr |-> "irregular"]

\* IncrementalSyncEngine.__init__: start_periods "2000Q1", "200001", "20190820".
start_periods == [gdp |-> 20001, cpi |-> 200001, lpr |-> 20190820]

\* IncrementalSyncEngine.__init__: publish_delays.
publish_delays ==
    [gdp |-> [type |-> "quarter", delay |-> 1],
     cpi |-> [type |-> "month", delay |-> 1],
     lpr |-> [type |-> "day", delay |-> 0]]

\* f"{year}Q{quarter}", f"{year:04d}{month:02d}" and strftime("%Y%m%d").
format_quarter(y, q) == y * 10 + q
format_month(y, m) == y * 100 + m
format_date(d) == d.y * 10000 + d.m * 100 + d.d

\* _parse_quarter: period.split("Q").
parse_quarter(period) == <<period \div 10, period % 10>>

\* _parse_month: six characters, else (now.year, now.month).
parse_month(period) ==
    IF period >= 100000 /\ period <= 999999
    THEN <<period \div 100, period % 100>>
    ELSE <<sNow.y, sNow.m>>

\* datetime.strptime(period, "%Y%m%d").
parse_date(period) == <<period \div 10000, (period \div 100) % 100, period % 100>>

\* Python's tuple comparison a > b.
TupleGreater(a, b) ==
    \E k \in 1..Len(a) :
        /\ a[k] > b[k]
        /\ \A j \in 1..(k - 1) : a[j] = b[j]

IsLeap(y) == (y % 4 = 0 /\ y % 100 # 0) \/ y % 400 = 0

DaysInMonth(y, m) ==
    IF m = 2 THEN (IF IsLeap(y) THEN 29 ELSE 28)
    ELSE IF m \in {4, 6, 9, 11} THEN 30 ELSE 31

\* The last day of the month before the month of d.
EndOfPrevMonth(d) ==
    IF d.m > 1 THEN [y |-> d.y, m |-> d.m - 1, d |-> DaysInMonth(d.y, d.m - 1)]
    ELSE [y |-> d.y - 1, m |-> 12, d |-> 31]

\* date - timedelta(days=n), a month at a time.
RECURSIVE MinusDays(_, _)
MinusDays(d, n) ==
    IF n < d.d THEN [d EXCEPT !.d = d.d - n]
    ELSE MinusDays(EndOfPrevMonth(d), n - d.d)

\* _get_current_period: the newest period that can be published by now.
get_current_period(indicator) ==
    LET cfg == publish_delays[indicator] IN
    IF cfg.type = "quarter"
    THEN LET current_quarter == ((sNow.m - 1) \div 3) + 1
             target_quarter == current_quarter - cfg.delay
         IN IF target_quarter <= 0
            THEN format_quarter(sNow.y - 1, target_quarter + 4)
            ELSE format_quarter(sNow.y, target_quarter)
    ELSE IF cfg.type = "month"
    THEN LET target_month == sNow.m - cfg.delay
         IN IF target_month <= 0
            THEN format_month(sNow.y - 1, target_month + 12)
            ELSE format_month(sNow.y, target_month)
    ELSE format_date(MinusDays(sNow, cfg.delay))

\* The mutant of _get_next_period: the last digit is advanced with no
\* rollover into the next year.
get_next_period_NoRollover(latest_period, indicator) == latest_period + 1

\* _get_next_period.
get_next_period(latest_period, indicator) ==
    LET frequency == INDICATOR_FREQUENCY[indicator] IN
    IF frequency = "quarterly"
    THEN LET yq == parse_quarter(latest_period)
         IN IF yq[2] = 4 THEN format_quarter(yq[1] + 1, 1)
            ELSE format_quarter(yq[1], yq[2] + 1)
    ELSE IF frequency = "monthly"
    THEN LET ym == parse_month(latest_period)
         IN IF ym[2] = 12 THEN format_month(ym[1] + 1, 1)
            ELSE format_month(ym[1], ym[2] + 1)
    ELSE latest_period

\* The mutant of _is_period_greater: no period is later than another.
is_period_greater_Never(period1, period2, indicator) == FALSE

\* _is_period_greater.
is_period_greater(period1, period2, indicator) ==
    LET frequency == INDICATOR_FREQUENCY[indicator] IN
    IF frequency = "quarterly"
    THEN TupleGreater(parse_quarter(period1), parse_quarter(period2))
    ELSE IF frequency = "monthly"
    THEN TupleGreater(parse_month(period1), parse_month(period2))
    ELSE TupleGreater(parse_date(period1), parse_date(period2))

MaxOf(S) == CHOOSE x \in S : \A z \in S : z <= x

\* _get_latest_period_from_db over a table holding `rows`: the newest period
\* of storage.get_latest_data(indicator, periods=1).  SQLiteMacroStorage has
\* no get_latest_data; the AttributeError is caught at line 168 and None is
\* returned.
latest_period_of(rows) ==
    IF sStorage = "sqlite" THEN None
    ELSE IF rows = {} THEN None
    ELSE MaxOf(rows)

get_latest_period_from_db(indicator) == latest_period_of(sStore[indicator])

\* _get_last_sync_timestamp: not persisted yet, always None.
get_last_sync_timestamp(indicator) == None

\* _should_sync: False only within min_sync_interval of the last sync
\* timestamp, of which there is none.
should_sync(indicator) == get_last_sync_timestamp(indicator) = None

\* The rows the provider returns for [start, end].
ProviderRange(indicator, start, end) ==
    {p \in sPub[indicator] : start <= p /\ p <= end}

\* _fetch_lpr_special: the last 90 days, of which the rows with
\* date >= start_period are kept; an exception gives an empty frame.
fetch_lpr_special(start_period, end_period, prov) ==
    IF prov = "raise" THEN {}
    ELSE LET three_months_ago == format_date(MinusDays(sNow, 90))
             current_date == format_date(sNow)
             all_data == ProviderRange("lpr", three_months_ago, current_date)
         IN {p \in all_data : p >= start_period}

\* _fetch_data: the fetcher's rows; every exception of the fetcher is caught
\* at line 315 and an empty frame is returned.
fetch_data(indicator, start_period, end_period, prov) ==
    IF indicator = "lpr" THEN fetch_lpr_special(start_period, end_period, prov)
    ELSE IF prov = "raise" THEN {}
    ELSE ProviderRange(indicator, start_period, end_period)

\* storage.save_data on a table holding `rows`: if_exists="replace".  On
\* MySQL the replace is a committed DELETE followed by the INSERTs, so a
\* failure can leave the table as it was or empty.
save_data(rows, data, save) ==
    IF save = "ok" THEN data
    ELSE IF save = "emptied" /\ sStorage = "mysql" THEN {}
    ELSE rows

\* The value storage.save_data returns: False for an empty frame or when the
\* write failed (save_dataframe returned False, or to_sql raised), else True.
save_returns(data, save) == data # {} /\ save = "ok"

\* The mutant of persist: the table is replaced by whatever was fetched.
persist_Replace(rows, data, save) == data

\* sync_indicator lines 115-117: save_data is called for a non-empty frame
\* only; its return value is not looked at.
persist(rows, data, save) ==
    IF data # {} THEN save_data(rows, data, save) ELSE rows

\* The result of a run of sync_indicator, with what the run did: start is
\* the start period it computed, called tells whether _fetch_data ran,
\* raised whether the provider raised in it, rows what it returned, before
\* the table ahead of the run, quiet whether the run follows sLast with no
\* provider data and no time in between, force its force_sync argument,
\* saved whether save_data was called and returned True.
NoResult ==
    [indicator |-> "none", status |-> "none", synced_count |-> 0, error |-> FALSE,
     start |-> None, called |-> FALSE, raised |-> FALSE, rows |-> {},
     before |-> {}, quiet |-> FALSE, force |-> FALSE, saved |-> FALSE]

\* sync_indicator: the result of the run and the table after it.
sync_indicator(indicator, force_sync, prov, save) ==
    LET before == sStore[indicator]
        latest_period == get_latest_period_from_db(indicator)
        end_period == get_current_period(indicator)
        start_period == IF latest_period = None THEN start_periods[indicator]
                        ELSE get_next_period(latest_period, indicator)
        data == fetch_data(indicator, start_period, end_period, prov)
        base == [NoResult EXCEPT !.indicator = indicator, !.before = before,
                                 !.quiet = sQuiet, !.force = force_sync]
        ranged == [base EXCEPT !.start = start_period]
        fetched == [ranged EXCEPT !.called = TRUE, !.raised = (prov = "raise"),
                                  !.rows = data]
    IN
    IF ~force_sync /\ ~should_sync(indicator)
    THEN [res |-> [base EXCEPT !.status = "skipped"], store |-> before]
    ELSE IF latest_period # None /\ is_period_greater(start_period, end_period, indicator)
    THEN [res |-> [ranged EXCEPT !.status = "up_to_date"], store |-> before]
    ELSE [res |-> IF data # {}
                  THEN [fetched EXCEPT !.status = "completed",
                                       !.synced_count = Cardinality(data),
                                       !.saved = save_returns(data, save)]
                  ELSE [fetched EXCEPT !.status = "no_data"],
          store |-> persist(before, data, save)]

\* sync_all_indicators: sync_indicator for every indicator in turn.
sync_all_indicators(force_sync, prov, save) ==
    [i \in Indicators |-> sync_indicator(i, force_sync, prov, save)]

\* How a save can end: done, failed with the table as it was, or failed
\* after the committed DELETE (MySQL only; as "failed" on SQLite).
SaveOutcomes == {"ok", "failed", "emptied"}
ProvOutcomes == {"ok", "raise"}

\* The provider's series: the first period it holds and the period after p.
SeriesStart == [gdp |-> 20242, cpi |-> 202409, lpr |-> 20240820]

SeriesNext(indicator, p) ==
    IF indicator = "gdp"
    THEN (IF p % 10 = 4 THEN format_quarter((p \div 10) + 1, 1) ELSE p + 1)
    ELSE IF indicator = "cpi"
    THEN (IF p % 100 = 12 THEN format_month((p \div 100) + 1, 1) ELSE p + 1)
    ELSE (IF (p \div 100) % 100 = 12 THEN ((p \div 10000) + 1) * 10000 + 100 + (p % 100)
          ELSE p + 100)

\* A period can be published once it is over: a month or quarter before the
\* current one, a date up to today.
Publishable(indicator, p) ==
    IF indicator = "gdp"
    THEN TupleGreater(<<sNow.y, ((sNow.m - 1) \div 3) + 1>>, parse_quarter(p))
    ELSE IF indicator = "cpi"
    THEN TupleGreater(<<sNow.y, sNow.m>>, <<p \div 100, p % 100>>)
    ELSE p <= format_date(sNow)

StartDate == [y |-> 2024, m |-> 11, d |-> 15]

MonthsSinceStart == (sNow.y - StartDate.y) * 12 + (sNow.m - StartDate.m)

NoPrev == [indicator |-> "none", status |-> "none", start |-> None]

NoCallYet ==
    [entry |-> "none", target |-> "none", completed |-> {}, stale |-> {}, jobs |-> {}]

\* The state of a newly constructed service: one indicator has a provider
\* series, whose first period may already be in the table.
InitSync ==
    /\ sStorage \in {"mysql", "sqlite"}
    /\ sEnableCache \in BOOLEAN
    /\ sEnableScheduler \in BOOLEAN
    /\ sNow = StartDate
    /\ \E a \in Indicators :
          /\ sPub = [i \in Indicators |-> IF i = a THEN {SeriesStart[a]} ELSE {}]
          /\ \E seeded \in BOOLEAN :
                sStore = [i \in Indicators |->
                             IF i = a /\ seeded THEN {SeriesStart[a]} ELSE {}]
    /\ sCached = {}
    /\ sQuiet = FALSE
    /\ sLast = NoResult
    /\ sPrev = NoPrev
    /\ sCall = NoCallYet

\* The engine of a service with cache and scheduler.
InitEngine ==
    /\ InitSync
    /\ sEnableCache
    /\ sEnableScheduler

\* A service whose provider has a cpi series.
InitService ==
    /\ InitSync
    /\ sPub["cpi"] # {}

SyncIdle ==
    /\ InitEngine
    /\ sStorage = "mysql"
    /\ sPub["cpi"] # {}
    /\ sStore["cpi"] = {}

\* What a run of sync_indicator(indicator) leaves in the table and in the
\* run records.
RunOne(indicator, run) ==
    /\ sStore' = [sStore EXCEPT ![indicator] = run.store]
    /\ sPrev' = IF sLast.indicator = indicator
                THEN [indicator |-> indicator, status |-> sLast.status,
                      start |-> sLast.start]
                ELSE NoPrev
    /\ sLast' = run.res
    /\ sQuiet' = TRUE

\* The order of the loop of sync_all_indicators.
IndicatorOrder == <<"gdp", "cpi", "lpr">>

\* What a call of sync_all_indicators leaves: the tables, and the run record
\* of the last indicator of the loop (the run before it was for another one).
RunAll(runs) ==
    /\ sStore' = [i \in Indicators |-> runs[i].store]
    /\ sPrev' = NoPrev
    /\ sLast' = runs[IndicatorOrder[Len(IndicatorOrder)]].res
    /\ sQuiet' = TRUE

\* IncrementalSyncEngine.sync_indicator, called on the engine.
SyncIndicator(indicator, force_sync, prov, save) ==
    /\ UNCHANGED NotSync
    /\ RunOne(indicator, sync_indicator(indicator, force_sync, prov, save))
    /\ UNCHANGED <<sStorage, sEnableCache, sEnableScheduler, sNow, sPub, sCached, sCall>>

\* IncrementalSyncEngine.sync_all_indicators, called on the engine.
SyncAllIndicators(force_sync, prov, save) ==
    /\ UNCHANGED NotSync
    /\ RunAll(sync_all_indicators(force_sync, prov, save))
    /\ UNCHANGED <<sStorage, sEnableCache, sEnableScheduler, sNow, sPub, sCached, sCall>>

\* The provider publishes the next period of a series.
Publish(indicator) ==
    /\ UNCHANGED NotSync
    /\ sPub[indicator] # {}
    /\ LET p == SeriesNext(indicator, MaxOf(sPub[indicator])) IN
       /\ Publishable(indicator, p)
       /\ sPub' = [sPub EXCEPT ![indicator] = @ \cup {p}]
    /\ sQuiet' = (sQuiet /\ sLast.indicator # indicator)
    /\ UNCHANGED <<sStorage, sEnableCache, sEnableScheduler, sNow, sStore, sCached,
                   sLast, sPrev, sCall>>

\* A month passes (the cached keys, kept for an hour at most, are gone).
SyncTick ==
    /\ UNCHANGED NotSync
    /\ MonthsSinceStart < MaxMonths
    /\ sNow' = IF sNow.m = 12 THEN [sNow EXCEPT !.y = sNow.y + 1, !.m = 1]
               ELSE [sNow EXCEPT !.m = sNow.m + 1]
    /\ sCached' = {}
    /\ sQuiet' = FALSE
    /\ UNCHANGED <<sStorage, sEnableCache, sEnableScheduler, sPub, sStore,
                   sLast, sPrev, sCall>>

NextSync ==
    \/ \E i \in Indicators, force_sync \in BOOLEAN, prov \in ProvOutcomes,
          save \in SaveOutcomes : SyncIndicator(i, force_sync, prov, save)
    \/ \E force_sync \in BOOLEAN, prov \in ProvOutcomes, save \in SaveOutcomes :
          SyncAllIndicators(force_sync, prov, save)
    \/ \E i \in Indicators : Publish(i)
    \/ SyncTick

\* ========================================================================
\* MacroDataService and MacroDataSyncScheduler
\* ========================================================================
\* MacroDataCache.invalidate_indicator: deletes the keys of the indicator;
\* with Redis unreachable the redis_client property raises, which
\* _on_sync_complete catches at line 75.
invalidate_indicator(cached, indicator, redisOk) ==
    IF redisOk THEN cached \ {indicator} ELSE cached

\* MacroDataService._on_sync_complete: the keys of result["indicator"] are
\* invalidated; the summary of sync_all_indicators has no key "indicator"
\* (target "all"), so nothing is invalidated for it.
on_sync_complete(cached, target, redisOk) ==
    IF ~sEnableCache THEN cached
    ELSE IF target # "all" THEN invalidate_indicator(cached, target, redisOk)
    ELSE cached

\* The indicators whose run returned completed in a call for target.
CompletedIn(target, runs) ==
    {i \in Indicators : (target = "all" \/ target = i) /\ runs[i].res.status = "completed"}

\* What a call of an entry point leaves: the runs' effects, the cache as the
\* callback left it, and the record of the call (jobs: the indicators a sync
\* was run for).
EntryCall(entry, target, force_sync, prov, save, cached) ==
    LET runs == sync_all_indicators(force_sync, prov, save) IN
    /\ IF target = "all" THEN RunAll(runs) ELSE RunOne(target, runs[target])
    /\ sCached' = cached
    /\ sCall' = [entry |-> entry, target |-> target,
                 completed |-> CompletedIn(target, runs),
                 stale |-> CompletedIn(target, runs) \cap cached,
                 jobs |-> IF target = "all" THEN Indicators ELSE {target}]
    /\ UNCHANGED <<sStorage, sEnableCache, sEnableScheduler, sNow, sPub>>

\* MacroDataSyncScheduler._run_sync_job: sync_indicator(indicator), then the
\* on_sync_complete callback.
RunSyncJob(indicator, prov, save, redisOk) ==
    /\ UNCHANGED NotSync
    /\ sEnableScheduler
    /\ EntryCall("job", indicator, FALSE, prov, save,
                 on_sync_complete(sCached, indicator, redisOk))

\* MacroDataSyncScheduler._weekly_full_sync: sync_all_indicators(force_sync=True),
\* then the on_sync_complete callback with the summary.
WeeklyFullSync(prov, save, redisOk) ==
    /\ UNCHANGED NotSync
    /\ sEnableScheduler
    /\ EntryCall("weekly", "all", TRUE, prov, save,
                 on_sync_complete(sCached, "all", redisOk))

\* MacroDataService.manual_sync: through the scheduler's manual_sync when
\* there is a scheduler (which calls on_sync_complete with the result), else
\* straight to the engine, with no callback.
ManualSync(target, force, prov, save, redisOk) ==
    /\ UNCHANGED NotSync
    /\ EntryCall("manual", target, force, prov, save,
                 IF sEnableScheduler THEN on_sync_complete(sCached, target, redisOk)
                 ELSE sCached)

\* What _get_indicator_data returns, and from where.  With caching enabled
\* the cache is asked first: cache.get_latest_data and cache.get_range_data
\* evaluate the redis_client property ahead of their try block, and with
\* Redis unreachable get_redis raises ConnectionError there, which is caught
\* at line 300 and an empty frame returned.  A cached frame is returned as
\* it is.  Otherwise the rows are read from the storage: mode "latest" with
\* storage.get_latest_data, which SQLiteMacroStorage lacks (the error is
\* caught at line 300), mode "range" with storage.get_data.
get_indicator_data(indicator, mode, redisOk) ==
    IF sEnableCache /\ ~redisOk THEN [from |-> "except", rows |-> {}]
    ELSE IF sEnableCache /\ indicator \in sCached THEN [from |-> "cache"]
    ELSE IF mode = "latest" /\ sStorage = "sqlite" THEN [from |-> "except", rows |-> {}]
    ELSE [from |-> "store", rows |-> sStore[indicator]]

\* MacroDataService._get_indicator_data: on a cache miss the rows read from
\* the storage are cached when there are any.  The record of the call tells
\* whether the cache held the indicator's keys and what was returned.  mode "latest" reads with
\* storage.get_latest_data, which SQLiteMacroStorage lacks (the error is
\* caught at line 300); mode "range" reads with storage.get_data.
ReadIndicator(indicator, mode, redisOk) ==
    /\ UNCHANGED NotSync
    /\ sCached' =
          LET data == get_indicator_data(indicator, mode, redisOk) IN
          IF sEnableCache /\ data.from = "store" /\ data.rows # {}
          THEN sCached \cup {indicator}
          ELSE sCached
    /\ sCall' = [entry |-> "read", target |-> indicator, completed |-> {},
                 stale |-> {}, jobs |-> {},
                 cached |-> (sEnableCache /\ indicator \in sCached),
                 data |-> get_indicator_data(indicator, mode, redisOk)]
    /\ UNCHANGED <<sStorage, sEnableCache, sEnableScheduler, sNow, sPub, sStore,
                   sQuiet, sLast, sPrev>>

\* detect_missing_periods: a list with one description of the range to
\* sync, or the empty list when the watermark is later than the current
\* period.
detect_missing_periods(indicator) ==
    LET latest_period == get_latest_period_from_db(indicator)
        current_period == get_current_period(indicator)
    IN IF latest_period = None
       THEN <<[from |-> start_periods[indicator], to |-> current_period]>>
       ELSE IF is_period_greater(latest_period, current_period, indicator)
       THEN << >>
       ELSE <<[from |-> get_next_period(latest_period, indicator),
               to |-> current_period]>>

\* _daily_health_check lines 153-158: the status in the health report.
health_status(indicator) ==
    IF Len(detect_missing_periods(indicator)) < 3 THEN "healthy" ELSE "needs_sync"

\* _daily_health_check lines 160-163 (of its seven indicators, the ones of
\* the model).
needs_sync == {i \in Indicators : health_status(i) = "needs_sync"}

\* MacroDataSyncScheduler._daily_health_check: _run_sync_job for every
\* indicator of needs_sync, each followed by the on_sync_complete callback.
DailyHealthCheck(prov, save, redisOk) ==
    /\ UNCHANGED NotSync
    /\ sEnableScheduler
    /\ LET jobs == needs_sync
           runs == sync_all_indicators(FALSE, prov, save)
           done == {i \in jobs : runs[i].res.status = "completed"}
       IN /\ sStore' = [i \in Indicators |->
                           IF i \in jobs THEN runs[i].store ELSE sStore[i]]
          /\ sCached' = IF sEnableCache /\ redisOk THEN sCached \ jobs ELSE sCached
          /\ sCall' = [entry |-> "health", target |-> "none", completed |-> done,
                       stale |-> done \cap sCached', jobs |-> jobs]
          /\ IF jobs = {}
             THEN UNCHANGED <<sLast, sPrev, sQuiet>>
             ELSE /\ sLast' = runs[CHOOSE i \in jobs : TRUE].res
                  /\ sPrev' = NoPrev
                  /\ sQuiet' = TRUE
    /\ UNCHANGED <<sStorage, sEnableCache, sEnableScheduler, sNow, sPub>>

\* Redis drops the keys of an indicator when their ttl runs out.
CacheExpire(indicator) ==
    /\ UNCHANGED NotSync
    /\ indicator \in sCached
    /\ sCached' = sCached \ {indicator}
    /\ UNCHANGED <<sStorage, sEnableCache, sEnableScheduler, sNow, sPub, sStore,
                   sQuiet, sLast, sPrev, sCall>>

NextService ==
    \/ \E i \in Indicators, prov \in ProvOutcomes, save \in SaveOutcomes,
          redisOk \in BOOLEAN : RunSyncJob(i, prov, save, redisOk)
    \/ \E prov \in ProvOutcomes, save \in SaveOutcomes, redisOk \in BOOLEAN :
          WeeklyFullSync(prov, save, redisOk)
    \/ \E target \in Indicators \cup {"all"}, force \in BOOLEAN,
          prov \in ProvOutcomes, save \in SaveOutcomes, redisOk \in BOOLEAN :
          ManualSync(target, force, prov, save, redisOk)
    \/ \E i \in Indicators, mode \in {"latest", "range"}, redisOk \in BOOLEAN :
          ReadIndicator(i, mode, redisOk)
    \/ \E prov \in ProvOutcomes, save \in SaveOutcomes, redisOk \in BOOLEAN :
          DailyHealthCheck(prov, save, redisOk)
    \/ \E i \in Indicators : CacheExpire(i)
    \/ \E i \in Indicators : Publish(i)

\* ========================================================================
\* MacroDataSyncScheduler: start, stop, the loop thread and sync_history
\* ========================================================================
\* scheduler.py lines 235-236: `if len(self.sync_history) > 1000:` keeps
\* `self.sync_history[-500:]`.
HistoryLimit == 1000
HistoryKeep == 500

\* The statuses sync_indicator returns (skipped needs a sync timestamp, of
\* which there is none; failed is the except branch of line 139, taken when
\* get_storage() raises at line 116), and the summary of sync_all_indicators,
\* which has no status.
EngineStatuses == {"completed", "no_data", "up_to_date", "failed"}
Summary == "summary"

\* self.sync_history.append(...): the new length.
append_history(n) == n + 1

\* The mutant of trim_history: the list is never cut.
trim_history_Never(n) == n

\* _run_sync_job lines 235-236.
trim_history(n) == IF n > HistoryLimit THEN HistoryKeep ELSE n

\* The mutant of start_returns_early: start() never returns at line 73.
start_returns_early_Never(is_running) == FALSE

\* start lines 71-73: `if self.is_running: ... return`.
start_returns_early(is_running) == is_running

\* The record of a call: the entry point, the status of the engine's result,
\* whether on_sync_complete and on_sync_error were invoked, whether the call
\* raised, and for start whether it returned at line 73.
NoSchedCall ==
    [entry |-> "none", status |-> "none", on_complete |-> FALSE, on_error |-> FALSE,
     raised |-> FALSE, noop |-> FALSE]

SchedCall(entry, status, on_complete) ==
    [NoSchedCall EXCEPT !.entry = entry, !.status = status, !.on_complete = on_complete]

\* MacroDataSyncScheduler.__init__ (lines 21-35) with the callbacks of
\* MacroDataService.__init__ set.
InitSched ==
    /\ hRunning = FALSE
    /\ hLoops = 0
    /\ hJobs = FALSE
    /\ hHistory = 0
    /\ hLast = NoSchedCall

SchedIdle == InitSched

\* start(): nothing when already running; else setup_schedules(), which
\* clears the schedule and registers the jobs (schedule.every().month of the
\* schedule library either yields a job or raises AttributeError, by the
\* library's version: setupOk), then is_running = True and a new thread.
SchedStart(setupOk) ==
    /\ UNCHANGED NotSched
    /\ IF start_returns_early(hRunning)
       THEN /\ hLast' = [NoSchedCall EXCEPT !.entry = "start", !.noop = TRUE]
            /\ UNCHANGED <<hRunning, hLoops, hJobs>>
       ELSE IF ~setupOk
       THEN /\ hJobs' = FALSE
            /\ hLast' = [NoSchedCall EXCEPT !.entry = "start", !.raised = TRUE]
            /\ UNCHANGED <<hRunning, hLoops>>
       ELSE /\ hLoops < MaxLoops
            /\ hJobs' = TRUE
            /\ hRunning' = TRUE
            /\ hLoops' = hLoops + 1
            /\ hLast' = [NoSchedCall EXCEPT !.entry = "start"]
    /\ UNCHANGED hHistory

\* stop(): is_running = False, schedule.clear(), and a join of at most 5
\* seconds on a thread that sleeps 60 (the thread ends in SchedLoopExit).
SchedStop ==
    /\ UNCHANGED NotSched
    /\ hRunning' = FALSE
    /\ hJobs' = FALSE
    /\ hLast' = [NoSchedCall EXCEPT !.entry = "stop"]
    /\ UNCHANGED <<hLoops, hHistory>>

\* _run_scheduler line 100: a loop thread finds is_running False and ends.
SchedLoopExit ==
    /\ UNCHANGED NotSched
    /\ ~hRunning
    /\ hLoops > 0
    /\ hLoops' = hLoops - 1
    /\ UNCHANGED <<hRunning, hJobs, hHistory, hLast>>

\* _run_sync_job, run by schedule.run_pending() in a loop thread: the
\* engine's result is appended, the history is cut, and on_sync_complete is
\* called with the result whatever its status.  sync_indicator raises
\* nothing and MacroDataService._on_sync_complete catches what it raises, so
\* the except branch of lines 252-255 is not taken.
SchedRunSyncJob(status) ==
    /\ UNCHANGED NotSched
    /\ hLoops > 0
    /\ hJobs
    /\ hHistory' = trim_history(append_history(hHistory))
    /\ hLast' = SchedCall("job", status, TRUE)
    /\ UNCHANGED <<hRunning, hLoops, hJobs>>

\* _daily_health_check: detect_missing_periods gives at most one entry per
\* indicator, so no indicator needs_sync; the report is appended.
SchedDailyHealthCheck ==
    /\ UNCHANGED NotSched
    /\ hLoops > 0
    /\ hJobs
    /\ hHistory < MaxHistory
    /\ hHistory' = append_history(hHistory)
    /\ hLast' = SchedCall("health", "none", FALSE)
    /\ UNCHANGED <<hRunning, hLoops, hJobs>>

\* _weekly_full_sync: the summary is appended and on_sync_complete called.
SchedWeeklyFullSync ==
    /\ UNCHANGED NotSched
    /\ hLoops > 0
    /\ hJobs
    /\ hHistory < MaxHistory
    /\ hHistory' = append_history(hHistory)
    /\ hLast' = SchedCall("weekly", Summary, TRUE)
    /\ UNCHANGED <<hRunning, hLoops, hJobs>>

\* manual_sync(indicator, force) from any thread: the result of
\* sync_indicator, or the summary of sync_all_indicators, is appended and
\* on_sync_complete called.
SchedManualSync(status) ==
    /\ UNCHANGED NotSched
    /\ hHistory < MaxHistory
    /\ hHistory' = append_history(hHistory)
    /\ hLast' = SchedCall("manual", status, TRUE)
    /\ UNCHANGED <<hRunning, hLoops, hJobs>>

NextSched ==
    \/ \E setupOk \in BOOLEAN : SchedStart(setupOk)
    \/ SchedStop
    \/ SchedLoopExit
    \/ \E status \in EngineStatuses : SchedRunSyncJob(status)
    \/ SchedDailyHealthCheck
    \/ SchedWeeklyFullSync
    \/ \E status \in EngineStatuses \cup {Summary} : SchedManualSync(status)

\* ========================================================================
\* Period arithmetic: _get_next_period and _is_period_greater on one period
\* ========================================================================
MaxYears == 4

\* The well-formed periods of an indicator's frequency over MaxYears years:
\* "YYYYQn" with n in 1..4, "YYYYMM" with MM in 01..12, and for the
\* irregular lpr two "YYYYMMDD" dates.
PeriodsOf(indicator) ==
    LET years == (StartDate.y - 1)..(StartDate.y + MaxYears - 2)
        frequency == INDICATOR_FREQUENCY[indicator]
    IN IF frequency = "quarterly"
       THEN {format_quarter(y, q) : y \in years, q \in 1..4}
       ELSE IF frequency = "monthly"
       THEN {format_month(y, m) : y \in years, m \in 1..12}
       ELSE {start_periods[indicator], format_date(StartDate)}

PeriodIdle ==
    /\ pIndicator = "gdp"
    /\ pPeriod = start_periods["gdp"]
    /\ pNext = None
    /\ pGreater = FALSE

\* A watermark read from the store: any well-formed period of the indicator.
InitPeriod ==
    /\ pIndicator \in Indicators
    /\ pPeriod \in PeriodsOf(pIndicator)
    /\ pNext = None
    /\ pGreater = FALSE

\* sync_indicator line 96: start_period = _get_next_period(latest_period,
\* indicator); the result is compared with the period it was computed from
\* by _is_period_greater.
NextPeriodCall ==
    /\ UNCHANGED NotPeriod
    /\ pNext = None
    /\ pNext' = get_next_period(pPeriod, pIndicator)
    /\ pGreater' = is_period_greater(pNext', pPeriod, pIndicator)
    /\ UNCHANGED <<pIndicator, pPeriod>>

\* The period fetched becomes the watermark of the following run.
PeriodAdvance ==
    /\ UNCHANGED NotPeriod
    /\ pNext # None
    /\ pNext \in PeriodsOf(pIndicator)
    /\ pPeriod' = pNext
    /\ pNext' = None
    /\ pGreater' = FALSE
    /\ UNCHANGED pIndicator

NextPeriod ==
    \/ NextPeriodCall
    \/ PeriodAdvance

\* ========================================================================
\* One handle: BaseConnection's error count and the reconnects of get_tushare
\* ========================================================================
\* BaseConnection.__init__: config.get("max_errors", 3).
max_errors == 3

MaxAttempts == 5

\* What the provider's API does with a call.
ApiOutcomes == {"ok", "empty", "raise"}

\* BaseConnection.increment_error: the count goes up; reaching max_errors
\* is logged and changes nothing else.
increment_error(errors) == errors + 1

\* BaseConnection.reset_error.
reset_error(errors) == 0

\* TushareConnection.is_healthy: False without a client; else one
\* trade_cal call: rows reset the count and give True, no rows give False,
\* an exception increments the count and gives False.
is_healthy(client, errors, api) ==
    IF ~client THEN [healthy |-> FALSE, errors |-> errors]
    ELSE IF api = "ok" THEN [healthy |-> TRUE, errors |-> reset_error(errors)]
    ELSE IF api = "empty" THEN [healthy |-> FALSE, errors |-> errors]
    ELSE [healthy |-> FALSE, errors |-> increment_error(errors)]

\* How connect() can end: with the API's answer to the health check of the
\* new client, or with ts.pro_api() raising before there is a client.
ConnectOutcomes == ApiOutcomes \cup {"no_client"}

\* BaseConnection.reconnect: disconnect() drops the client; connect() makes
\* a new one and is connected if is_healthy of the new client holds; an
\* exception in connect() increments the count.
reconnect(errors, outcome) ==
    IF outcome = "no_client"
    THEN [ok |-> FALSE, client |-> FALSE, connected |-> FALSE,
          errors |-> increment_error(errors)]
    ELSE LET check == is_healthy(TRUE, errors, outcome) IN
         [ok |-> check.healthy, client |-> TRUE, connected |-> check.healthy,
          errors |-> check.errors]

NoGet == [healthy |-> FALSE, reconnected |-> FALSE, raised |-> FALSE, errors |-> 0]

\* The handle as _init_tushare stores it: connected, no errors.
InitHandle ==
    /\ kClient = TRUE
    /\ kConnected = TRUE
    /\ kErrors = 0
    /\ kReconnects = 0
    /\ kLast = NoGet

HandleIdle == InitHandle

\* ConnectionRegistry.get_tushare on the held handle: is_healthy, and when
\* it is False reconnect(), whose failure raises ConnectionError; then
\* get_client().  errors in the record is the count at the health check.
HandleGet(first, second) ==
    /\ UNCHANGED NotHandle
    /\ LET check == is_healthy(kClient, kErrors, first) IN
       IF check.healthy
       THEN /\ kErrors' = check.errors
            /\ kReconnects' = 0
            /\ kLast' = [NoGet EXCEPT !.healthy = TRUE, !.errors = check.errors]
            /\ UNCHANGED <<kClient, kConnected>>
       ELSE LET again == reconnect(check.errors, second) IN
            /\ kReconnects < MaxAttempts
            /\ kClient' = again.client
            /\ kConnected' = again.connected
            /\ kErrors' = again.errors
            /\ kReconnects' = IF again.ok THEN 0 ELSE kReconnects + 1
            /\ kLast' = [NoGet EXCEPT !.reconnected = TRUE, !.raised = ~again.ok,
                                      !.errors = check.errors]

\* BaseConnection.get_stats, called by the registry's health_check and
\* get_stats: is_healthy is called when the handle is connected, and nothing
\* is repaired.
HandleStats(api) ==
    /\ UNCHANGED NotHandle
    /\ kConnected
    /\ kErrors' = is_healthy(kClient, kErrors, api).errors
    /\ kErrors' <= 2 * MaxAttempts
    /\ UNCHANGED <<kClient, kConnected, kReconnects, kLast>>

NextHandle ==
    \/ \E first \in ApiOutcomes, second \in ConnectOutcomes : HandleGet(first, second)
    \/ \E api \in ApiOutcomes : HandleStats(api)

\* ========================================================================
\* MarketDataCache.get in a second thread, one tier at a time
\* ========================================================================
\* get() holds _cache_lock inside _get_from_memory and _set_to_memory only;
\* between its probes and its back-fills the calls of other threads run.
GetIdle ==
    /\ tPc = "idle"
    /\ tKey = get_cache_key("china", "spot")
    /\ tData = NoEntry

\* get line 72: cache_key = self._get_cache_key(market, data_type).
GetStart(k) ==
    /\ UNCHANGED NotRace
    /\ tPc = "idle"
    /\ tPc' = "memory"
    /\ tKey' = k
    /\ tData' = NoEntry
    /\ UNCHANGED cvars

\* get lines 75-78: _get_from_memory; a valid entry is returned, an expired
\* one is deleted.
GetFromMemory ==
    /\ UNCHANGED NotRace
    /\ tPc = "memory"
    /\ IF MemoryValid(cMem[tKey], cNow)
       THEN /\ tPc' = "idle"
            /\ UNCHANGED cMem
       ELSE /\ tPc' = "redis"
            /\ cMem' = [cMem EXCEPT ![tKey] = NoEntry]
    /\ UNCHANGED <<tKey, tData, cNow, cRedisUp, cRedis, cFile, cLast, cPrev>>

\* get lines 81-82: _get_from_redis.
GetFromRedis(redisOk) ==
    /\ UNCHANGED NotRace
    /\ tPc = "redis"
    /\ IF cRedisUp /\ redisOk /\ RedisValid(cRedis[tKey], cNow)
       THEN /\ tPc' = "fill_memory_from_redis"
            /\ tData' = cRedis[tKey]
       ELSE /\ tPc' = "file"
            /\ UNCHANGED tData
    /\ UNCHANGED <<tKey, cvars>>

\* get lines 89-90 and 97-98: _get_from_file; an expired file is deleted and
\* the get returns None.
GetFromFile ==
    /\ UNCHANGED NotRace
    /\ tPc = "file"
    /\ IF FileValid(cFile[tKey], cNow)
       THEN /\ tPc' = "fill_memory_from_file"
            /\ tData' = cFile[tKey]
            /\ UNCHANGED cFile
       ELSE /\ tPc' = "idle"
            /\ cFile' = [cFile EXCEPT ![tKey] = NoEntry]
            /\ UNCHANGED tData
    /\ UNCHANGED <<tKey, cNow, cRedisUp, cMem, cRedis, cLast, cPrev>>

\* get lines 85-86 and 93: _set_to_memory with the data read; the get that
\* read Redis returns, the one that read the file goes on to Redis.
GetFillMemory ==
    /\ UNCHANGED NotRace
    /\ tPc \in {"fill_memory_from_redis", "fill_memory_from_file"}
    /\ cMem' = set_to_memory(tKey, tData.val, tData.origin)
    /\ tPc' = IF tPc = "fill_memory_from_redis" THEN "idle" ELSE "fill_redis"
    /\ UNCHANGED <<tKey, tData, cNow, cRedisUp, cRedis, cFile, cLast, cPrev>>

\* get lines 94-95: _set_to_redis with the data read from the file.
GetFillRedis(redisOk) ==
    /\ UNCHANGED NotRace
    /\ tPc = "fill_redis"
    /\ cRedis' = set_to_redis(tKey, tData.val, tData.origin, redisOk)
    /\ tPc' = "idle"
    /\ UNCHANGED <<tKey, tData, cNow, cRedisUp, cMem, cFile, cLast, cPrev>>

\* A cache constructed over the cache_dir and the Redis server of an
\* earlier process: memory is empty, a file and a Redis key written by
\* that process may be there.
InitRace ==
    /\ cNow = 0
    /\ cRedisUp \in BOOLEAN
    /\ cMem = [k \in Keys |-> NoEntry]
    /\ \E e \in {NoEntry, Entry(1, 0, TTL, 0)} : cRedis = [k \in Keys |-> e]
    /\ \E e \in {NoEntry, Entry(1, 0, 0, 0)} : cFile = [k \in Keys |-> e]
    /\ cLast = [k \in Keys |-> NoCall]
    /\ cPrev = [k \in Keys |-> NoCall]
    /\ GetIdle

\* The calls of the first thread (set, get, clear() of every key) between
\* the steps of the second thread's get.
NextRace ==
    \/ \E k \in Keys, v \in Frames, redisOk \in BOOLEAN, fileOk \in BOOLEAN :
          CacheSet(k, v, redisOk, fileOk)
    \/ \E k \in Keys, redisOk \in BOOLEAN : CacheGet(k, redisOk)
    \/ \E redisOk \in BOOLEAN : CacheClear("None", redisOk)
    \/ \E k \in Keys : GetStart(k)
    \/ GetFromMemory
    \/ \E redisOk \in BOOLEAN : GetFromRedis(redisOk)
    \/ GetFromFile
    \/ GetFillMemory
    \/ \E redisOk \in BOOLEAN : GetFillRedis(redisOk)

\* ========================================================================
\* Specifications
\* ========================================================================
\* The initial states of each specification: the subsystem under study in
\* any state its constructor can leave, the others at rest.
StartRegistry == InitRegistry /\ FetchIdle /\ CacheIdle /\ SyncIdle /\ SchedIdle /\ HealthCheckIdle /\ PeriodIdle /\ HandleIdle /\ GetIdle
StartFetch == InitFetch /\ RegistryIdle /\ CacheIdle /\ SyncIdle /\ SchedIdle /\ HealthCheckIdle /\ PeriodIdle /\ HandleIdle /\ GetIdle
StartCache == InitCache /\ RegistryIdle /\ FetchIdle /\ SyncIdle /\ SchedIdle /\ HealthCheckIdle /\ PeriodIdle /\ HandleIdle /\ GetIdle
StartSync == InitEngine /\ RegistryIdle /\ FetchIdle /\ CacheIdle /\ SchedIdle /\ HealthCheckIdle /\ PeriodIdle /\ HandleIdle /\ GetIdle
StartService == InitService /\ RegistryIdle /\ FetchIdle /\ CacheIdle /\ SchedIdle /\ HealthCheckIdle /\ PeriodIdle /\ HandleIdle /\ GetIdle
StartHealth ==
    RegistryIdle /\ HealthCheckIdle /\ FetchIdle /\ CacheIdle /\ SyncIdle /\ SchedIdle /\ PeriodIdle /\ HandleIdle /\ GetIdle
StartSched == InitSched /\ RegistryIdle /\ FetchIdle /\ CacheIdle /\ SyncIdle /\ HealthCheckIdle /\ PeriodIdle /\ HandleIdle /\ GetIdle

SpecRegistry == StartRegistry /\ [][NextRegistry]_vars

SpecFetch == StartFetch /\ [][NextFetch]_vars

SpecCache == StartCache /\ [][NextCache]_vars

SpecSync == StartSync /\ [][NextSync]_vars

SpecService == StartService /\ [][NextService]_vars

SpecSched == StartSched /\ [][NextSched]_vars

SpecHealth == StartHealth /\ [][NextHealth]_vars

StartPeriod ==
    InitPeriod /\ RegistryIdle /\ HealthCheckIdle /\ FetchIdle /\ CacheIdle /\ SyncIdle /\ SchedIdle /\ HandleIdle /\ GetIdle

SpecPeriod == StartPeriod /\ [][NextPeriod]_vars

StartHandle ==
    InitHandle /\ RegistryIdle /\ HealthCheckIdle /\ FetchIdle /\ CacheIdle /\ SyncIdle /\ SchedIdle /\ PeriodIdle /\ GetIdle

SpecHandle == StartHandle /\ [][NextHandle]_vars

StartRace ==
    InitRace /\ RegistryIdle /\ HealthCheckIdle /\ FetchIdle /\ SyncIdle /\ SchedIdle /\ PeriodIdle /\ HandleIdle

SpecRace == StartRace /\ [][NextRace]_vars

\* ========================================================================
\* Claims
\* ========================================================================
\* Handles constructed for provider p whose connect() succeeded and that were
\* never disconnected.
LiveHandles(p) == {h \in HandleIds : rProvOf[h] = p /\ rConnected[h]}

\* C1: registry singleton -- at no time is there more than one live handle
\* for one provider name, and two first-time calls of get for the same
\* provider that both return a handle return the same handle.
C1_RegistrySingleton ==
    /\ \A p \in Providers : Cardinality(LiveHandles(p)) <= 1
    /\ \A t1 \in Threads, t2 \in Threads :
          ( /\ rPc[t1] = "idle" /\ rPc[t2] = "idle"
            /\ rArg[t1] = rArg[t2]
            /\ rFirst[t1] /\ rFirst[t2]
            /\ rRet[t1].kind = "handle" /\ rRet[t2].kind = "handle" )
          => rRet[t1].h = rRet[t2].h

IsPrefix(a, b) == Len(a) <= Len(b) /\ \A i \in 1..Len(a) : a[i] = b[i]

\* The resolved list restricted to the providers that have a service object.
AvailableSources == SelectSeq(Resolve(fKind, fClass), LAMBDA x : x \in fServices)

NoDataBefore(n) == \A i \in 1..n : fOutcomes[i] # "data"

\* C2 as stated: the attempted providers are a prefix of resolve(C, K), each
\* attempted at most once, and the attempts end at the first provider that
\* returns a non-empty result.
C2_PrefixOfResolved ==
    /\ IsPrefix(fAttempted, Resolve(fKind, fClass))
    /\ \A i, j \in 1..Len(fAttempted) : i < j => fAttempted[i] # fAttempted[j]
    /\ NoDataBefore(Len(fOutcomes) - 1)

\* C2 (amended): the attempted providers are a prefix of resolve(C, K) with
\* the providers that have no service object left out, in that order, each at
\* most once; a payload is returned exactly from the first provider whose
\* result is non-empty, and the loop ends unsuccessfully only after every
\* available provider of the list was attempted.
C2_FallbackOrdering ==
    /\ IsPrefix(fAttempted, AvailableSources)
    /\ \A i, j \in 1..Len(fAttempted) : i < j => fAttempted[i] # fAttempted[j]
    /\ Len(fOutcomes) = Len(fAttempted)
    /\ NoDataBefore(Len(fOutcomes) - 1)
    /\ (fPc = "loop" => NoDataBefore(Len(fOutcomes)))
    /\ (fPc = "returned" /\ fResult # "fallback") =>
          /\ Len(fAttempted) >= 1
          /\ fOutcomes[Len(fOutcomes)] = "data"
          /\ fResult = fAttempted[Len(fAttempted)]
    /\ (fPc = "raised" \/ fResult = "fallback") =>
          /\ fAttempted = AvailableSources
          /\ NoDataBefore(Len(fOutcomes))

\* A call that skipped a provider without service object, saw the next one
\* fail and got its payload from a later one.
C2_Witness ==
    /\ fPc = "returned"
    /\ Len(fAttempted) >= 2
    /\ fResult = fAttempted[Len(fAttempted)]
    /\ Resolve(fKind, fClass)[1] \notin fServices

\* The loop ended without a provider answering with data.
FetchExhausted == fPc = "raised" \/ (fPc = "returned" /\ fResult = "fallback")

\* The last attempted provider that raised, "None" when none did.
LastRaiser ==
    LET R == {i \in 1..Len(fOutcomes) : fOutcomes[i] = "raise"} IN
    IF R = {} THEN "None" ELSE fAttempted[CHOOSE i \in R : \A j \in R : j <= i]

C4_CacheExpiry ==
    \A k \in Keys :
        (cLast[k].op = "get" /\ cLast[k].hit) => cLast[k].origin >= cLast[k].at - TTL

SecondOfTwoRuns ==
    /\ sLast.indicator # "none"
    /\ sPrev.indicator = sLast.indicator
    /\ sLast.quiet

\* C6: idempotent sync -- when sync_indicator runs twice in succession for
\* an indicator, with no new provider data in between, and the first run
\* fetched rows (status completed), the second run returns up_to_date and
\* leaves as many rows in the indicator's table as the first run left.
C6_IdempotentSync ==
    (SecondOfTwoRuns /\ sPrev.status = "completed") =>
        /\ sLast.status = "up_to_date"
        /\ Cardinality(sStore[sLast.indicator]) = Cardinality(sLast.before)

\* C7: when a run fetches a non-empty range, the watermark the next run
\* reads is the last fetched period, and the run returns completed with
\* synced_count equal to the number of fetched rows.
C7_WatermarkAdvances ==
    (sLast.called /\ sLast.rows # {}) =>
        /\ get_latest_period_from_db(sLast.indicator) = MaxOf(sLast.rows)
        /\ sLast.status = "completed"
        /\ sLast.synced_count = Cardinality(sLast.rows)

\* C8: when an entry point returns, no indicator whose run returned
\* completed in that call has cache entries left, for every entry point.
C8_CompletedInvalidates == sCall.stale = {}

\* C9: a run in whose fetch step the provider raised returns failed with the
\* error message and leaves the indicator's table and watermark as they were.
C9_ProviderErrorFails ==
    sLast.raised =>
        /\ sLast.status = "failed"
        /\ sLast.error
        /\ sStore[sLast.indicator] = sLast.before

PeriodLater(period1, period2) == period1 > period2

C12_SkippedWithinInterval ==
    (/\ sLast.quiet
     /\ ~sLast.force
     /\ sPrev.indicator = sLast.indicator
     /\ sPrev.status = "completed")
        => /\ sLast.status = "skipped"
           /\ ~sLast.called

C14_ConfigurationError ==
    \A t \in Threads :
       (rPc[t] = "idle" /\ rRet[t] # NoRet /\ ~rConfig[rArg[t]])
          => /\ rRet[t].kind = "ConfigurationError"
             /\ \A h \in HandleIds : rProvOf[h] # rArg[t]

\* ------------------------------------------------------------------------
\* C15: a call for a subject of no known market class resolves to no
\* provider list, attempts no provider and returns no provider's data.
\* ------------------------------------------------------------------------
C15_UnknownClassFails ==
    (fClass = "unknown" /\ fPc # "idle")
       => /\ Resolve(fKind, fClass) = <<>>
          /\ fAttempted = <<>>
          /\ fPc # "returned"

\* ------------------------------------------------------------------------
\* C16: a scheduled job whose sync result is failed does not raise out of
\* the loop and has on_sync_error invoked for it.
\* ------------------------------------------------------------------------
C16_FailedRunReported ==
    (hLast.entry = "job" /\ hLast.status = "failed")
       => /\ ~hLast.raised
          /\ hLast.on_error

C18_HistoryBounded == hHistory <= HistoryLimit

\* ------------------------------------------------------------------------
\* C19: after clear(market) has returned no tier holds a key of the market,
\* and a get of such a key that follows the clear, with no set in between,
\* is a miss.
\* ------------------------------------------------------------------------
C19_ClearRemovesAllTiers ==
    \A k \in Keys :
       /\ cLast[k].op = "clear" /\ cLast[k].redis
             => ~cMem[k].has /\ ~cRedis[k].has /\ ~cFile[k].has
       /\ cLast[k].op = "get" /\ cPrev[k].op = "clear" /\ cPrev[k].redis
             => ~cLast[k].hit

\* ------------------------------------------------------------------------
\* C20: what the tiers hold when set has returned and no other call on the
\* key has followed.
\* ------------------------------------------------------------------------
\* The tier entry e holds the payload of the set call c.
HoldsPayload(e, c) == e.has /\ e.val = c.val /\ e.origin = c.at

C21_HealthCheckNeverRaises ==
    /\ gRet # "RuntimeError"
    /\ (gRet = "report" /\ gPc = "idle" /\ Cardinality(HeldProviders) = gSize)
          => Cardinality(gSeen) = gSize

\* ------------------------------------------------------------------------
\* C22: for every quarterly or monthly period p, the period _get_next_period
\* returns is later than p by _is_period_greater; the fourth quarter rolls
\* to the first quarter of the next year ("2024Q4" to "2025Q1") and month
\* 12 to month 01 of the next year ("202412" to "202501").
\* ------------------------------------------------------------------------
C22_NextPeriodLater ==
    (pNext # None /\ INDICATOR_FREQUENCY[pIndicator] # "irregular")
        => /\ pGreater
           /\ (pIndicator = "gdp" /\ pPeriod = 20244) => pNext = 20251
           /\ (pIndicator = "cpi" /\ pPeriod = 202412) => pNext = 202501
           /\ (INDICATOR_FREQUENCY[pIndicator] = "quarterly" /\ pPeriod % 10 = 4)
                 => pNext = ((pPeriod \div 10) + 1) * 10 + 1
           /\ (INDICATOR_FREQUENCY[pIndicator] = "monthly" /\ pPeriod % 100 = 12)
                 => pNext = ((pPeriod \div 100) + 1) * 100 + 1

C22_Witness ==
    /\ pIndicator = "gdp"
    /\ pPeriod = 20244
    /\ pNext = 20251
    /\ pGreater

\* ------------------------------------------------------------------------
\* C23: a run returns completed only if the store's save succeeded: after a
\* completed run save_data has returned True and the rows the run fetched
\* are in the table the next watermark is read from.
\* ------------------------------------------------------------------------
C23_CompletedOnlyIfSaved ==
    sLast.status = "completed"
        => /\ sLast.saved
           /\ sLast.rows \subseteq sStore[sLast.indicator]

\* ------------------------------------------------------------------------
\* C24: after any sequence of start() and stop() at most one scheduler loop
\* thread is alive, so no two loops run the pending sync jobs in parallel.
\* ------------------------------------------------------------------------
C24_SingleLoop == hLoops <= 1

\* ------------------------------------------------------------------------
\* C25: a completed incremental sync whose save succeeded preserves the
\* history: the table after the run is the rows it held before the run
\* together with the rows the run fetched.
\* ------------------------------------------------------------------------
C25_HistoryPreserved ==
    (sLast.status = "completed" /\ sLast.saved)
        => sStore[sLast.indicator] = sLast.before \cup sLast.rows

\* ------------------------------------------------------------------------
\* C29: an lpr run that found a watermark in the table keeps only the rows
\* strictly newer than the watermark: no fetched row has the date of the
\* watermark or an older one, and the run returns completed only if it
\* fetched a row newer than the watermark.
\* ------------------------------------------------------------------------
C29_LprStrictlyNewer ==
    (/\ sLast.indicator = "lpr"
     /\ sLast.called
     /\ latest_period_of(sLast.before) # None)
        => /\ \A p \in sLast.rows : p > latest_period_of(sLast.before)
           /\ sLast.status = "completed"
                 => \E p \in sPub["lpr"] : p > latest_period_of(sLast.before)

\* The number of periods of a quarterly or monthly indicator that are
\* published by now and missing from its table: the periods after the
\* newest stored one (from the start period for an empty table) up to the
\* current period.
PeriodIndex(indicator, p) ==
    IF INDICATOR_FREQUENCY[indicator] = "quarterly"
    THEN (p \div 10) * 4 + (p % 10)
    ELSE (p \div 100) * 12 + (p % 100)

MissingCount(indicator) ==
    LET current == PeriodIndex(indicator, get_current_period(indicator))
    IN IF sStore[indicator] = {}
       THEN current - PeriodIndex(indicator, start_periods[indicator]) + 1
       ELSE current - PeriodIndex(indicator, MaxOf(sStore[indicator]))

\* ------------------------------------------------------------------------
\* C28: whenever the table of a quarterly or monthly indicator lacks three
\* or more of the periods published by now, the daily health check runs a
\* sync job for that indicator in the same check.
\* ------------------------------------------------------------------------
C28_HealthCheckEscalates ==
    [][(\E prov \in ProvOutcomes, save \in SaveOutcomes, redisOk \in BOOLEAN :
           DailyHealthCheck(prov, save, redisOk))
          => \A i \in {"gdp", "cpi"} : MissingCount(i) >= 3 => i \in sCall'.jobs]_vars

\* ------------------------------------------------------------------------
\* C30: a read of an indicator with caching enabled and the cache holding
\* no entry for it returns the rows of the store (here the MySQL store,
\* which serves every read), whether Redis can be reached or not.
\* ------------------------------------------------------------------------
C30_ReadFallsBackToStore ==
    (/\ sCall.entry = "read"
     /\ sEnableCache
     /\ ~sCall.cached
     /\ sStorage = "mysql")
        => sCall.data.rows = sStore[sCall.target]

\* ------------------------------------------------------------------------
\* C27: a handle is found unhealthy by get only once max_errors consecutive
\* failures were counted, and the reconnect attempts that get makes on a
\* handle that keeps failing number at most max_errors.
\* ------------------------------------------------------------------------
C27_ReconnectsBounded ==
    /\ kLast.reconnected => kLast.errors >= max_errors
    /\ kReconnects <= max_errors

\* ------------------------------------------------------------------------
\* C26: once a clear() that emptied every tier of a key has returned and no
\* set() has followed, the next get() of the key is a miss, also when a
\* get() of another thread was in progress while the clear() ran.
\* ------------------------------------------------------------------------
C26_ClearedStaysCleared ==
    \A k \in Keys :
        (/\ cLast[k].op = "get"
         /\ cPrev[k].op = "clear"
         /\ cPrev[k].at = cLast[k].at
         /\ cPrev[k].redis \/ ~cRedisUp)
            => ~cLast[k].hit
====
